---- MODULE Spec2Model ----
(***************************************************************************)
(* A model of the intent-datasets analysis scripts:                        *)
(*   relationship_analyzer.py  load_datasets, analyze_foreign_keys,        *)
(*                             analyze_data_coverage, generate_report,     *)
(*                             setup_output_directory,                     *)
(*                             save_detailed_results, main                 *)
(*   analyze_datasets.py       SCHEMAS, analyze_csv_files                  *)
(*   sampler.py                the sampler script body                     *)
(*                                                                         *)
(* A CSV file is a record [header, rows] of text cells.  pandas.read_csv  *)
(* is modelled by what it does to such a file: the empty cell is the null  *)
(* value, and the dtype of a column is inferred from its cells (int64,     *)
(* float64 when an integer column holds a null, bool, object).  A          *)
(* DataFrame keeps the cells as read together with the inferred dtype;     *)
(* astype(str) renders a cell according to the dtype of its column.        *)
(* Percentages rounded to two decimals are kept as integers, in            *)
(* hundredths (66.67 is 6667).                                             *)
(***************************************************************************)
EXTENDS Integers, Sequences, FiniteSets, TLC

VARIABLES
    private_exists,    \* whether the directory private/ exists
    input_dir,         \* private/datasets: [exists, files], files the listing
    output_dir,        \* private/analysis: [exists, files], files a set of names
    datasets,          \* load_datasets' dict, in insertion order: Seq of [name, df]
    errors,            \* the file names of the "ERROR loading" lines printed
    fk_results,        \* analyze_foreign_keys' list
    fk_divisors,       \* the denominators analyze_foreign_keys has divided by
    coverage_results,  \* analyze_data_coverage's list
    report,            \* what generate_report printed: [strong, broken]
    samples_dir,       \* private/samples: [exists, files], files Seq of [name, raw]
    stats_results,     \* analyze_csv_files' list
    mismatches,        \* analyze_csv_files' local list, one per analyzed file
    next_file,         \* the index of the file a script's loop handles next
    pc,                \* the position of the running script
    exception,         \* the message of the exception raised, "none" if none
    exit_status        \* main's return value, "none" while it runs

vars == <<private_exists, input_dir, output_dir, datasets, errors, fk_results, fk_divisors,
          coverage_results, report, samples_dir, stats_results, mismatches,
                   next_file, pc, exception,
          exit_status>>

----------------------------------------------------------------------------
(* Bounds of the model                                                     *)

\* the most rows a drawn sampler input holds beyond the sampling limit
MaxExtra == 2

\* the largest number of data rows of a drawn key table
MaxRows == 2

\* the largest number of references a drawn report input holds
MaxRefs == 6

----------------------------------------------------------------------------
(* Sequences                                                               *)

Range(s) == {s[i] : i \in DOMAIN s}

RECURSIVE Count(_, _)
\* the number of elements of sequence s that are in set S
Count(s, S) ==
    IF s = <<>> THEN 0
    ELSE (IF Head(s) \in S THEN 1 ELSE 0) + Count(Tail(s), S)

RECURSIVE Flatten(_)
\* the concatenation of a sequence of sequences
Flatten(ss) == IF ss = <<>> THEN <<>> ELSE Head(ss) \o Flatten(Tail(ss))

RECURSIVE SeqOfSet(_)
\* some enumeration of a finite set (an unspecified, fixed order)
SeqOfSet(S) ==
    IF S = {} THEN <<>>
    ELSE LET x == CHOOSE y \in S : TRUE IN <<x>> \o SeqOfSet(S \ {x})

NoDuplicates(s) == \A i, j \in DOMAIN s : s[i] = s[j] => i = j

----------------------------------------------------------------------------
(* CSV text and pandas.read_csv                                            *)

\* cell texts read_csv takes for a missing value (some of pandas' default
\* na_values); "\"\"" is the quoted empty field to_csv writes for a null
\* in a one-column table
NaValues == {"", "\"\"", "NA", "NaN", "null"}

IsNull(cell) == cell \in NaValues

\* the integer literals the model reads: one decimal digit
IsIntText(cell) == \E n \in 0..9 : ToString(n) = cell

IntOf(cell) == CHOOSE n \in 0..9 : ToString(n) = cell

IsBoolText(cell) == cell \in {"True", "False"}

\* pd.read_csv's dtype inference for one column (pandas before 3.0, where
\* text columns are labelled object): a header-only file gives object
\* columns, an all-null column is float64, integers with a null are float64
InferDtype(cells) ==
    LET present == {c \in Range(cells) : ~IsNull(c)}
        hasNull == \E c \in Range(cells) : IsNull(c)
    IN  IF cells = <<>> THEN "object"
        ELSE IF present = {} THEN "float64"
        ELSE IF \A c \in present : IsIntText(c)
             THEN (IF hasNull THEN "float64" ELSE "int64")
        ELSE IF (\A c \in present : IsBoolText(c)) /\ ~hasNull THEN "bool"
        ELSE "object"

\* pandas raises EmptyDataError on a file with no header line
ReadCsvFails(raw) == raw.header = <<>>

\* skip_blank_lines: a line without any text is no row; it is the line of
\* an empty cell in a one-column file
BlankLine(row) == Len(row) = 1 /\ row[1] = ""

DataRows(raw) == SelectSeq(raw.rows, LAMBDA row : ~BlankLine(row))

\* the cells of the j-th column of the rows, top to bottom
ColumnOf(rows, j) == [i \in DOMAIN rows |-> rows[i][j]]

ColumnIndex(raw, c) == CHOOSE j \in DOMAIN raw.header : raw.header[j] = c

\* the DataFrame pd.read_csv(file_path, low_memory=False) returns
ReadCsv(raw) ==
    LET rows == DataRows(raw)
        cells == [c \in Range(raw.header) |-> ColumnOf(rows, ColumnIndex(raw, c))]
    IN  [columns |-> raw.header,
         nrows   |-> Len(rows),
         cells   |-> cells,
         dtype   |-> [c \in Range(raw.header) |-> InferDtype(cells[c])]]

\* str(v) of a non-null value of a column of the given dtype
AsStr(dtype, cell) ==
    IF dtype = "int64" THEN ToString(IntOf(cell))
    ELSE IF dtype = "float64" THEN ToString(IntOf(cell)) \o ".0"
    ELSE cell

\* df[col].dropna().astype(str), as a list
DropnaAsStr(df, col) ==
    LET kept == SelectSeq(df.cells[col], LAMBDA c : ~IsNull(c))
    IN  [i \in DOMAIN kept |-> AsStr(df.dtype[col], kept[i])]

\* len(df[df[col].notna()])
NotNaCount(df, col) == Len(SelectSeq(df.cells[col], LAMBDA c : ~IsNull(c)))

\* df[col].isnull().sum()
NullCount(df, col) == Len(SelectSeq(df.cells[col], LAMBDA c : IsNull(c)))

\* df[col].nunique(): the distinct non-null values
NUnique(df, col) == Cardinality({c \in Range(df.cells[col]) : ~IsNull(c)})

----------------------------------------------------------------------------
(* The dict of loaded tables                                               *)

Loaded(ds) == {ds[i].name : i \in DOMAIN ds}

Table(ds, name) == (ds[CHOOSE i \in DOMAIN ds : ds[i].name = name]).df

HasColumn(df, col) == col \in Range(df.columns)

----------------------------------------------------------------------------
(* Arithmetic                                                              *)

\* Natural numbers too long for one machine word: the limbs of the number
\* in base Limb, least significant first, the last limb not 0; <<>> is 0
Limb == 32768

RECURSIVE BigTrim(_)
BigTrim(a) ==
    IF a = <<>> THEN a
    ELSE IF a[Len(a)] = 0 THEN BigTrim(SubSeq(a, 1, Len(a) - 1))
    ELSE a

RECURSIVE BigMulCarry(_, _, _)
\* a * k + carry, 0 <= k <= Limb
BigMulCarry(a, k, carry) ==
    IF a = <<>>
    THEN IF carry = 0 THEN <<>>
         ELSE <<carry % Limb>> \o BigMulCarry(<<>>, k, carry \div Limb)
    ELSE LET p == a[1] * k + carry
         IN  <<p % Limb>> \o BigMulCarry(Tail(a), k, p \div Limb)

BigMulSmall(a, k) == BigTrim(BigMulCarry(a, k, 0))

BigInc(a) == BigMulCarry(a, 1, 1)

RECURSIVE BigDivRem(_, _)
\* quotient and remainder of a by d, 0 < d <= Limb
BigDivRem(a, d) ==
    IF a = <<>> THEN [q |-> <<>>, r |-> 0]
    ELSE LET hi == BigDivRem(Tail(a), d)
             cur == hi.r * Limb + a[1]
         IN  [q |-> <<cur \div d>> \o hi.q, r |-> cur % d]

RECURSIVE BitLen(_)
BitLen(n) == IF n = 0 THEN 0 ELSE 1 + BitLen(n \div 2)

BigBitLen(a) == IF a = <<>> THEN 0 ELSE 15 * (Len(a) - 1) + BitLen(a[Len(a)])

RECURSIVE BigToInt(_)
BigToInt(a) == IF a = <<>> THEN 0 ELSE a[1] + Limb * BigToInt(Tail(a))

RECURSIVE ShiftParts(_, _, _, _)
\* a shifted right by `drop` bits: the quotient, the last bit shifted out
\* (guard) and whether a 1 was shifted out before it (sticky)
ShiftParts(a, drop, guard, sticky) ==
    IF drop = 0 THEN [q |-> a, guard |-> guard, sticky |-> sticky]
    ELSE LET c == IF drop < 15 THEN drop ELSE 15
             d == BigDivRem(a, 2^c)
             half == 2^(c - 1)
         IN  ShiftParts(BigTrim(d.q), drop - c, d.r >= half,
                        sticky \/ guard \/ (d.r % half # 0))

\* a / 2^drop rounded to the nearest integer, ties to the even one
RoundShift(a, drop) ==
    LET p == ShiftParts(a, drop, FALSE, FALSE)
        odd == p.q # <<>> /\ p.q[1] % 2 = 1
    IN  IF p.guard /\ (p.sticky \/ odd) THEN BigInc(p.q) ELSE p.q

\* A double (IEEE 754 binary64) that is not negative: the number m * 2^e
\* with m below 2^53 (or m = 2^53, the same number as 2^52 * 2^(e+1))
Double(m, e) == [m |-> m, e |-> e]

\* the double nearest to m * 2^e, ties to even: what every arithmetic
\* operation on doubles returns for its exact result
FloatRound(m, e) ==
    LET excess == BigBitLen(m) - 53
    IN  IF excess <= 0 THEN Double(m, e)
        ELSE Double(RoundShift(m, excess), e + excess)

RECURSIVE Normalise(_, _, _)
\* num * 2^k / den brought into [1, 2), num > 0, den > 0
Normalise(num, den, k) ==
    IF num < den THEN Normalise(2 * num, den, k + 1)
    ELSE IF num >= 2 * den THEN Normalise(num, 2 * den, k - 1)
    ELSE [num |-> num, den |-> den, k |-> k]

\* the next c bits (c <= 5) of the binary expansion of rem / den, where
\* rem < den < 2^26, and the remainder they leave
NextBits(rem, den, c) ==
    [val |-> (rem * 2^c) \div den, rem |-> (rem * 2^c) % den]

\* the next 15 bits, one limb
NextLimb(rem, den) ==
    LET a == NextBits(rem, den, 5)
        b == NextBits(a.rem, den, 5)
        c == NextBits(b.rem, den, 5)
    IN  [val |-> a.val * 1024 + b.val * 32 + c.val, rem |-> c.rem]

\* num / den of two integers (Python's int / int, numpy's int64 / int):
\* the 53 leading bits of the quotient by long division, rounded by the
\* next bit and the remainder
FloatDiv(num, den) ==
    IF num = 0 THEN Double(<<>>, 0)
    ELSE LET n == Normalise(num, den, 0)
             t5 == NextBits(n.num - n.den, n.den, 5)
             t2 == NextBits(t5.rem, n.den, 2)
             l3 == NextLimb(t2.rem, n.den)
             l2 == NextLimb(l3.rem, n.den)
             l1 == NextLimb(l2.rem, n.den)
             guard == NextBits(l1.rem, n.den, 1)
             m == <<l1.val, l2.val, l3.val, 128 + t5.val * 4 + t2.val>>
             up == guard.val = 1 /\ (guard.rem # 0 \/ l1.val % 2 = 1)
         IN  Double(IF up THEN BigInc(m) ELSE m, -52 - n.k)

\* x * k of a double and a small integer
FloatMul(x, k) == FloatRound(BigMulSmall(x.m, k), x.e)

\* the integer nearest to m * 2^e, ties to even
Rint(m, e) ==
    IF e >= 0 THEN BigToInt(BigMulSmall(m, 2^e)) ELSE BigToInt(RoundShift(m, -e))

\* Python's round(x, 2) of a float, in hundredths: the exact value of the
\* double is rounded, ties to even
PyRound2(x) == Rint(BigMulSmall(x.m, 100), x.e)

\* numpy's round(x, 2) of a float64, in hundredths: rint(x * 100) / 100,
\* where x * 100 is rounded to a double first
NpRound2(x) == LET y == FloatMul(x, 100) IN Rint(y.m, y.e)

\* round(num / den * 100, 2) of two Python integers, in hundredths, den > 0
RoundPct(num, den) == PyRound2(FloatMul(FloatDiv(num, den), 100))

\* round(num / den * 100, 2) of a numpy integer and an integer, in
\* hundredths, den > 0
NpRoundPct(num, den) == NpRound2(FloatMul(FloatDiv(num, den), 100))

----------------------------------------------------------------------------
(* relationship_analyzer.py: load_datasets                                 *)

EndsWith(name, suffix) ==
    /\ Len(name) >= Len(suffix)
    /\ SubSeq(name, Len(name) - Len(suffix) + 1, Len(name)) = suffix

\* Path.glob("*.csv") over a directory listing
GlobCsv(files) == SelectSeq(files, LAMBDA f : EndsWith(f.name, ".csv"))

RECURSIVE FirstFailure(_)
\* the index of the first file read_csv fails on, past the end if none
FirstFailure(csv_files) ==
    IF csv_files = <<>> \/ ReadCsvFails(Head(csv_files).raw) THEN 1
    ELSE 1 + FirstFailure(Tail(csv_files))

\* a variant whose try block encloses the loop: loading stops at the first
\* file that does not parse
LoadedDatasetsUntilFailure(csv_files) ==
    LET parsed == SubSeq(csv_files, 1, FirstFailure(csv_files) - 1)
    IN  [i \in DOMAIN parsed |-> [name |-> parsed[i].name, df |-> ReadCsv(parsed[i].raw)]]

\* the loop of load_datasets: a file that parses is stored under its name,
\* a file that does not is reported and skipped
LoadedDatasets(csv_files) ==
    LET parsed == SelectSeq(csv_files, LAMBDA f : ~ReadCsvFails(f.raw))
    IN  [i \in DOMAIN parsed |-> [name |-> parsed[i].name, df |-> ReadCsv(parsed[i].raw)]]

LoadErrors(csv_files) ==
    LET failed == SelectSeq(csv_files, LAMBDA f : ReadCsvFails(f.raw))
    IN  [i \in DOMAIN failed |-> failed[i].name]

\* a variant without the test for an empty list of CSV files
LoadRaisesMissingOnly(dir) ==
    IF ~dir.exists THEN "Directory private/datasets not found" ELSE "none"

\* the exception load_datasets raises for a directory, "none" if it returns
LoadRaises(dir) ==
    IF ~dir.exists THEN "Directory private/datasets not found"
    ELSE IF GlobCsv(dir.files) = <<>> THEN "No CSV files found in private/datasets"
    ELSE "none"

\* main: datasets = load_datasets()
LoadDatasets ==
    /\ pc = "load_datasets"
    /\ IF LoadRaises(input_dir) # "none"
       THEN /\ exception' = LoadRaises(input_dir)
            /\ pc' = "raised"
            /\ UNCHANGED <<datasets, errors>>
       ELSE /\ datasets' = LoadedDatasets(GlobCsv(input_dir.files))
            /\ errors' = LoadErrors(GlobCsv(input_dir.files))
            /\ pc' = "analyze_foreign_keys"
            /\ UNCHANGED exception
    /\ UNCHANGED <<private_exists, input_dir, output_dir, fk_results, fk_divisors,
                   coverage_results, report, samples_dir, stats_results, mismatches,
                   next_file,
                   exit_status>>

----------------------------------------------------------------------------
(* relationship_analyzer.py: analyze_foreign_keys                          *)

KeywordSets == "db1_keyword_sets_file_sample.csv"
KeywordSetKeywords == "db1_keyword_set_keywords_file_sample.csv"
GeoWeekly == "db_company_intent_geo_weekly_file_sample.csv"
ContactScores == "db_company_intent_geo_weekly_keywordset_contact_scores_file_sample.csv"
Company == "db_company_file_sample.csv"
CompanyFull == "db_company_full_file_sample.csv"
Contacts == "db_contacts_file_sample.csv"

Rel(pt, pk, ct, ck) ==
    [parent_table |-> pt, parent_key |-> pk, child_table |-> ct, child_key |-> ck]

\* the declared (parent_table, parent_key, child_table, child_key) list
relationships ==
    << Rel(KeywordSets, "id", KeywordSetKeywords, "keyword_set_id"),
       Rel(KeywordSets, "id", GeoWeekly, "keyword_set_id"),
       Rel(KeywordSets, "id", ContactScores, "keyword_set_id"),
       Rel(Company, "company_id", Contacts, "company_id"),
       Rel(Company, "company_id", GeoWeekly, "company_id"),
       Rel(Company, "company_id", ContactScores, "company_id"),
       Rel(CompanyFull, "company_id", Contacts, "company_id"),
       Rel(CompanyFull, "company_id", GeoWeekly, "company_id"),
       Rel(CompanyFull, "company_id", ContactScores, "company_id"),
       Rel(Contacts, "employment_id", ContactScores, "employment_id"),
       Rel(Company, "company_id", Company, "parent_id"),
       Rel(Company, "company_id", Company, "ultimate_parent_id"),
       Rel(CompanyFull, "company_id", CompanyFull, "parent_id"),
       Rel(CompanyFull, "company_id", CompanyFull, "ultimate_parent_id") >>

\* a variant that also skips a relationship whose child table has no row
EvaluatedWithRows(ds, rel) ==
    /\ rel.parent_table \in Loaded(ds)
    /\ rel.child_table \in Loaded(ds)
    /\ HasColumn(Table(ds, rel.parent_table), rel.parent_key)
    /\ HasColumn(Table(ds, rel.child_table), rel.child_key)
    /\ Table(ds, rel.child_table).nrows > 0

\* the two `continue` tests: a relationship is evaluated when neither fires
Evaluated(ds, rel) ==
    /\ rel.parent_table \in Loaded(ds)
    /\ rel.child_table \in Loaded(ds)
    /\ HasColumn(Table(ds, rel.parent_table), rel.parent_key)
    /\ HasColumn(Table(ds, rel.child_table), rel.child_key)

\* set(parent_df[parent_key].dropna().astype(str))
ParentValues(ds, rel) ==
    Range(DropnaAsStr(Table(ds, rel.parent_table), rel.parent_key))

\* a variant that counts the distinct child values: len(child_values)
TotalChildRefsDistinct(ds, rel) ==
    Cardinality(Range(DropnaAsStr(Table(ds, rel.child_table), rel.child_key)))

\* len(child_df[child_df[child_key].notna()])
TotalChildRefs(ds, rel) == NotNaCount(Table(ds, rel.child_table), rel.child_key)

\* len([v for v in child_df[child_key].dropna().astype(str) if v in parent_values])
ValidRefs(ds, rel) ==
    Count(DropnaAsStr(Table(ds, rel.child_table), rel.child_key),
          ParentValues(ds, rel))

\* a variant without the guard
DividesAlways(total_child_refs) == TRUE

\* the guard of the division: `if total_child_refs > 0`
Divides(total_child_refs) == total_child_refs > 0

\* round((valid_refs / total_child_refs * 100) if total_child_refs > 0 else 0, 2)
ReferentialIntegrity(valid_refs, total_child_refs) ==
    IF Divides(total_child_refs) THEN RoundPct(valid_refs, total_child_refs) ELSE 0

\* a variant that compares the key columns instead of the tables
RelationshipTypeByKey(rel) ==
    IF rel.parent_key = rel.child_key THEN "self-referencing" ELSE "foreign_key"

RelationshipType(rel) ==
    IF rel.parent_table = rel.child_table THEN "self-referencing" ELSE "foreign_key"

\* the dict appended for one evaluated relationship
FKEntry(ds, rel) ==
    LET total_child_refs == TotalChildRefs(ds, rel)
        valid_refs == ValidRefs(ds, rel)
    IN  [parent_table |-> rel.parent_table,
         parent_key |-> rel.parent_key,
         child_table |-> rel.child_table,
         child_key |-> rel.child_key,
         parent_unique_values |-> Cardinality(ParentValues(ds, rel)),
         child_total_refs |-> total_child_refs,
         valid_refs |-> valid_refs,
         invalid_refs |-> total_child_refs - valid_refs,
         referential_integrity_pct |->
             ReferentialIntegrity(valid_refs, total_child_refs),
         relationship_type |-> RelationshipType(rel)]

\* the list analyze_foreign_keys returns: one entry per evaluated
\* relationship, in the order of the declarations
FKResults(ds) ==
    Flatten([i \in DOMAIN relationships |->
                IF Evaluated(ds, relationships[i])
                THEN <<FKEntry(ds, relationships[i])>> ELSE <<>>])

\* the denominators of the divisions the loop performs
FKDivisors(ds) ==
    {TotalChildRefs(ds, relationships[i]) :
        i \in {j \in DOMAIN relationships :
                /\ Evaluated(ds, relationships[j])
                /\ Divides(TotalChildRefs(ds, relationships[j]))}}

\* main: fk_results = analyze_foreign_keys(datasets).  A division by zero
\* is Python's ZeroDivisionError, which leaves the function
AnalyzeForeignKeys ==
    /\ pc = "analyze_foreign_keys"
    /\ fk_divisors' = FKDivisors(datasets)
    /\ IF 0 \in FKDivisors(datasets)
       THEN /\ pc' = "raised"
            /\ exception' = "division by zero"
            /\ UNCHANGED fk_results
       ELSE /\ pc' = "analyze_data_coverage"
            /\ fk_results' = FKResults(datasets)
            /\ UNCHANGED exception
    /\ UNCHANGED <<private_exists, input_dir, output_dir, datasets, errors, coverage_results,
                   report, samples_dir, stats_results, mismatches,
                   next_file, exit_status>>

----------------------------------------------------------------------------
(* relationship_analyzer.py: analyze_data_coverage                         *)

\* a numpy float rounded to two decimals: a number in hundredths, or nan
Num(h) == [nan |-> FALSE, hundredths |-> h]
NaN == [nan |-> TRUE, hundredths |-> 0]

\* round((null_count / len(df)) * 100, 2): null_count is a numpy integer, so
\* 0 / 0 is nan (with a RuntimeWarning), not an exception
NullPct(null_count, total_rows) ==
    IF total_rows = 0 THEN NaN ELSE Num(NpRoundPct(null_count, total_rows))

CoverageRecord(name, df, col) ==
    [table |-> name,
     column |-> col,
     total_rows |-> df.nrows,
     null_count |-> NullCount(df, col),
     null_percentage |-> NullPct(NullCount(df, col), df.nrows),
     unique_values |-> NUnique(df, col),
     data_type |-> df.dtype[col]]

\* one record per column of every table, tables in dict order
CoverageResults(ds) ==
    Flatten([i \in DOMAIN ds |->
                [j \in DOMAIN ds[i].df.columns |->
                    CoverageRecord(ds[i].name, ds[i].df, ds[i].df.columns[j])]])

\* main: coverage_results = analyze_data_coverage(datasets)
AnalyzeDataCoverage ==
    /\ pc = "analyze_data_coverage"
    /\ coverage_results' = CoverageResults(datasets)
    /\ pc' = "generate_report"
    /\ UNCHANGED <<private_exists, input_dir, output_dir, datasets, errors, fk_results,
                   fk_divisors, report, samples_dir, stats_results, mismatches,
                   next_file, exception, exit_status>>

----------------------------------------------------------------------------
(* relationship_analyzer.py: generate_report                               *)

\* relationships above this integrity percentage are "strong"
StrongThreshold == 80

\* columns above this null percentage are counted as high-null
HighNullThreshold == 30

\* [r for r in fk_results if r["referential_integrity_pct"] > 80]
ValidRelationships(results) ==
    SelectSeq(results,
              LAMBDA r : r.referential_integrity_pct > StrongThreshold * 100)

\* a variant that leaves a relationship at exactly the threshold out
BrokenRelationshipsBelow(results) ==
    SelectSeq(results,
              LAMBDA r : r.referential_integrity_pct < StrongThreshold * 100)

\* [r for r in fk_results if r["referential_integrity_pct"] <= 80]
BrokenRelationships(results) ==
    SelectSeq(results,
              LAMBDA r : r.referential_integrity_pct <= StrongThreshold * 100)

\* [c for c in coverage_results if c["null_percentage"] > 30]; nan > 30 is False
HighNullCols(coverage) ==
    SelectSeq(coverage,
              LAMBDA c : /\ ~c.null_percentage.nan
                         /\ c.null_percentage.hundredths > HighNullThreshold * 100)

Contains(text, part) ==
    \E i \in 1..Len(text) :
        /\ i + Len(part) - 1 <= Len(text)
        /\ SubSeq(text, i, i + Len(part) - 1) = part

\* the columns whose (lower-case) name contains one of the key words; the
\* model's column names are lower-case already
KeyColumns(coverage) ==
    SelectSeq(coverage,
              LAMBDA c : \E key \in {"id", "company_id", "employment_id", "keyword_set_id"} :
                            Contains(c.column, key))

\* main: generate_report(datasets, fk_results, coverage_results)
GenerateReport ==
    /\ pc = "generate_report"
    /\ report' = [total_files |-> Len(datasets),
                  strong |-> ValidRelationships(fk_results),
                  broken |-> BrokenRelationships(fk_results),
                  high_null_cols |-> Len(HighNullCols(coverage_results)),
                  key_columns |-> Len(KeyColumns(coverage_results))]
    /\ pc' = "save_detailed_results"
    /\ UNCHANGED <<private_exists, input_dir, output_dir, datasets, errors, fk_results,
                   fk_divisors, coverage_results, samples_dir, stats_results, mismatches,
                   next_file,
                   exception, exit_status>>

----------------------------------------------------------------------------
(* relationship_analyzer.py: setup_output_directory, save_detailed_results,*)
(* main                                                                    *)

\* a file of private/analysis: its name and the run that wrote it
OutFile(name, run) == [name |-> name, run |-> run]

\* a variant that removes the two detail files only
CleanedDetailFiles(files) ==
    {f \in files :
        f.name \notin {"relationship_analysis.csv", "data_coverage_analysis.csv"}}

\* output_dir.mkdir(parents=True, exist_ok=True), then unlink every *.csv
CleanedOutputFiles(files) == {f \in files : ~EndsWith(f.name, ".csv")}

\* main: output_dir = setup_output_directory()
SetupOutputDirectory ==
    /\ pc = "setup_output_directory"
    /\ private_exists' = TRUE
    /\ output_dir' = [exists |-> TRUE,
                      files |-> IF output_dir.exists
                                THEN CleanedOutputFiles(output_dir.files) ELSE {}]
    /\ pc' = "load_datasets"
    /\ UNCHANGED <<input_dir, datasets, errors, fk_results, fk_divisors,
                   coverage_results, report, samples_dir, stats_results, mismatches,
                   next_file,
                   exception, exit_status>>

\* the two files to_csv writes, replacing files of the same name
DetailFileNames == {"relationship_analysis.csv", "data_coverage_analysis.csv"}

SavedOutputFiles(files) ==
    {f \in files : f.name \notin DetailFileNames}
        \cup {OutFile(n, "this") : n \in DetailFileNames}

\* main: save_detailed_results(fk_results, coverage_results, output_dir)
SaveDetailedResults ==
    /\ pc = "save_detailed_results"
    /\ output_dir' = [output_dir EXCEPT !.files = SavedOutputFiles(@)]
    /\ pc' = "return"
    /\ UNCHANGED <<private_exists, input_dir, datasets, errors, fk_results, fk_divisors,
                   coverage_results, report, samples_dir, stats_results, mismatches,
                   next_file,
                   exception, exit_status>>

\* main: `except Exception as e: print(...); return 1`
ExceptReturn ==
    /\ pc = "raised"
    /\ exit_status' = 1
    /\ pc' = "done"
    /\ UNCHANGED <<private_exists, input_dir, output_dir, datasets, errors, fk_results,
                   fk_divisors, coverage_results, report, samples_dir,
                   stats_results, mismatches, next_file, exception>>

\* main: `return 0`
Return ==
    /\ pc = "return"
    /\ exit_status' = 0
    /\ pc' = "done"
    /\ UNCHANGED <<private_exists, input_dir, output_dir, datasets, errors, fk_results,
                   fk_divisors, coverage_results, report, samples_dir,
                   stats_results, mismatches, next_file, exception>>

----------------------------------------------------------------------------
(* sampler.py                                                              *)

\* the row count up to which a file is copied whole
SampleLimit == 500

\* pd.read_csv(csv_file, dtype=str, low_memory=False): every column is text
ReadCsvStr(raw) ==
    LET rows == DataRows(raw)
    IN  [columns |-> raw.header,
         nrows   |-> Len(rows),
         cells   |-> [c \in Range(raw.header) |-> ColumnOf(rows, ColumnIndex(raw, c))],
         dtype   |-> [c \in Range(raw.header) |-> "object"]]

\* df.head(n)
HeadRows(df, n) ==
    IF df.nrows <= n THEN df
    ELSE [columns |-> df.columns,
          nrows |-> n,
          cells |-> [c \in Range(df.columns) |-> SubSeq(df.cells[c], 1, n)],
          dtype |-> df.dtype]

\* the text to_csv writes for one cell: nothing for a null (a quoted empty
\* field when the table has one column), str(value) otherwise
CsvCell(df, col, i) ==
    IF IsNull(df.cells[col][i])
    THEN (IF Len(df.columns) = 1 THEN "\"\"" ELSE "")
    ELSE AsStr(df.dtype[col], df.cells[col][i])

\* df.to_csv(output_path, index=False)
ToCsv(df) ==
    [header |-> df.columns,
     rows |-> [i \in 1..df.nrows |->
                [j \in DOMAIN df.columns |-> CsvCell(df, df.columns[j], i)]]]

\* writing a file into a directory listing replaces a file of that name
WriteFile(files, f) ==
    SelectSeq(files, LAMBDA g : g.name # f.name) \o <<f>>

\* a variant with a strict comparison
CopiedWholeStrict(df) == df.nrows < SampleLimit

\* `if len(df) <= 500`
CopiedWhole(df) == df.nrows <= SampleLimit

\* the file the loop body writes for one source file
SampleOf(name, raw) ==
    LET df == ReadCsvStr(raw)
    IN  IF CopiedWhole(df)
        THEN [name |-> "copy_" \o name, raw |-> ToCsv(df)]
        ELSE [name |-> "sample_" \o name, raw |-> ToCsv(HeadRows(df, SampleLimit))]

\* list(datasets_dir.glob("*.csv")): nothing when the directory is missing
SamplerCsvFiles ==
    IF input_dir.exists THEN GlobCsv(input_dir.files) ELSE <<>>

\* shutil.rmtree(samples_dir) if it exists, then samples_dir.mkdir():
\* without parents=True the mkdir raises FileNotFoundError when private/
\* is missing, and the script ends there
SamplerClear ==
    /\ pc = "sampler_clear"
    /\ IF private_exists
       THEN /\ samples_dir' = [exists |-> TRUE, files |-> <<>>]
            /\ next_file' = 1
            /\ pc' = "sampler_loop"
            /\ UNCHANGED exception
       ELSE /\ exception' = "No such file or directory: 'private/samples'"
            /\ pc' = "crashed"
            /\ UNCHANGED <<samples_dir, next_file>>
    /\ UNCHANGED <<private_exists, input_dir, output_dir, datasets, errors,
                   fk_results, fk_divisors, coverage_results, report,
                   stats_results, mismatches, exit_status>>

\* one turn of `for csv_file in csv_files`; read_csv's exception is not
\* caught and ends the script
SamplerFile ==
    /\ pc = "sampler_loop"
    /\ next_file <= Len(SamplerCsvFiles)
    /\ LET f == SamplerCsvFiles[next_file]
       IN  IF ReadCsvFails(f.raw)
           THEN /\ exception' = "No columns to parse from file"
                /\ pc' = "crashed"
                /\ UNCHANGED <<samples_dir, next_file>>
           ELSE /\ samples_dir' = [samples_dir EXCEPT
                                    !.files = WriteFile(@, SampleOf(f.name, f.raw))]
                /\ next_file' = next_file + 1
                /\ UNCHANGED <<pc, exception>>
    /\ UNCHANGED <<private_exists, input_dir, output_dir, datasets, errors, fk_results,
                   fk_divisors, coverage_results, report, stats_results,
                   mismatches, exit_status>>

\* the loop is exhausted and the script ends
SamplerEnd ==
    /\ pc = "sampler_loop"
    /\ next_file > Len(SamplerCsvFiles)
    /\ pc' = "done"
    /\ UNCHANGED <<private_exists, input_dir, output_dir, datasets, errors, fk_results,
                   fk_divisors, coverage_results, report, samples_dir,
                   stats_results, mismatches, next_file, exception,
                   exit_status>>

----------------------------------------------------------------------------
(* analyze_datasets.py: SCHEMAS and analyze_csv_files                      *)

Col(name, type) == [col |-> name, expected |-> type]

\* the file names SCHEMAS has an entry for
SchemaFiles ==
    {GeoWeekly, ContactScores, Company, CompanyFull, Contacts, KeywordSets,
     KeywordSetKeywords}

\* SCHEMAS[name]: the expected dtype of each column, in declaration order
SCHEMAS(name) ==
    IF name = GeoWeekly THEN
        << Col("company_id", "int64"), Col("domain", "object"),
           Col("start_date", "object"), Col("end_date", "object"),
           Col("duration_type", "object"), Col("keyword_set_id", "int64"),
           Col("keyword_set", "object"), Col("keyword", "object"),
           Col("country", "object"), Col("census_division", "object"),
           Col("region", "object"), Col("city", "object"),
           Col("num_people_researching", "int64"),
           Col("intent_strength", "object"), Col("partition_date", "object") >>
    ELSE IF name = ContactScores THEN
        << Col("dt", "object"), Col("keyword_set_id", "int64"),
           Col("company_id", "int64"), Col("employment_id", "int64"),
           Col("intent_score", "int64"), Col("partition_date", "object") >>
    ELSE IF name = Company THEN
        << Col("company_id", "int64"), Col("employees", "float64"),
           Col("revenue", "float64"), Col("isroot", "int64"),
           Col("best_domain", "bool") >>
    ELSE IF name = CompanyFull THEN
        << Col("company_id", "int64"), Col("employees", "float64"),
           Col("revenue", "float64"), Col("isroot", "float64"),
           Col("sic", "float64") >>
    ELSE IF name = Contacts THEN
        << Col("executive_id", "int64"), Col("employment_id", "int64"),
           Col("company_id", "int64"), Col("revenue_usd", "float64"),
           Col("employees", "float64"), Col("sic_us", "float64"),
           Col("naics", "float64"), Col("equifax_id", "float64") >>
    ELSE IF name = KeywordSets THEN
        << Col("id", "int64"), Col("competitive", "bool") >>
    ELSE IF name = KeywordSetKeywords THEN
        << Col("keyword_set_id", "int64") >>
    ELSE <<>>

\* every file name of the model, in the order sorted() puts them
SortedNames ==
    <<"README.md", KeywordSetKeywords, KeywordSets, Company, CompanyFull,
      GeoWeekly, ContactScores, Contacts, "notes.csv">>

\* sorted(Path(directory).glob("*.csv")); nothing for a missing directory
SortedCsvFiles(dir) ==
    IF ~dir.exists THEN <<>>
    ELSE LET csv == GlobCsv(dir.files)
             names == SelectSeq(SortedNames,
                                LAMBDA n : \E i \in DOMAIN csv : csv[i].name = n)
         IN  [k \in DOMAIN names |->
                csv[CHOOSE i \in DOMAIN csv : csv[i].name = names[k]]]

\* a variant that tests int64 columns only
MismatchEntryIntOnly(col, expected_type, actual_type) ==
    IF expected_type = "bool" /\ actual_type \notin {"bool", "boolean"}
    THEN <<col \o ": expected bool, got " \o actual_type>>
    ELSE IF expected_type = "int64" /\ Contains(actual_type, "object")
    THEN <<col \o ": expected numeric, got " \o actual_type>>
    ELSE <<>>

\* what the two branches append for one expected column found in the table
MismatchEntry(col, expected_type, actual_type) ==
    IF expected_type = "bool" /\ actual_type \notin {"bool", "boolean"}
    THEN <<col \o ": expected bool, got " \o actual_type>>
    ELSE IF expected_type \in {"int64", "float64"} /\ Contains(actual_type, "object")
    THEN <<col \o ": expected numeric, got " \o actual_type>>
    ELSE <<>>

\* the list `mismatches` built for one file
Mismatches(name, df) ==
    IF name \notin SchemaFiles THEN <<>>
    ELSE Flatten([k \in DOMAIN SCHEMAS(name) |->
                    LET e == SCHEMAS(name)[k]
                    IN  IF HasColumn(df, e.col)
                        THEN MismatchEntry(e.col, e.expected, df.dtype[e.col])
                        ELSE <<>>])

\* the number of mismatch descriptions mismatch_details lists
MaxDetails == 3

RECURSIVE Join(_, _)
\* sep.join(texts)
Join(sep, texts) ==
    IF texts = <<>> THEN ""
    ELSE IF Len(texts) = 1 THEN texts[1]
    ELSE texts[1] \o sep \o Join(sep, Tail(texts))

\* a variant that joins the first three descriptions and never marks the cut
MismatchDetailsUnmarked(ms) ==
    Join(", ", SubSeq(ms, 1, IF Len(ms) < MaxDetails THEN Len(ms) ELSE MaxDetails))

\* ", ".join(mismatches[:3]) + ("..." if len(mismatches) > 3 else "")
MismatchDetails(ms) ==
    Join(", ", SubSeq(ms, 1, IF Len(ms) < MaxDetails THEN Len(ms) ELSE MaxDetails))
        \o (IF Len(ms) > MaxDetails THEN "..." ELSE "")

RECURSIVE Sum(_)
Sum(ns) == IF ns = <<>> THEN 0 ELSE Head(ns) + Sum(Tail(ns))

\* df.isnull().sum(): the null count of every column, in column order
NullCounts(df) == [j \in DOMAIN df.columns |-> NullCount(df, df.columns[j])]

\* round(total_nulls / (rows * columns) * 100, 2): total_nulls is a numpy
\* integer, so 0 / 0 is nan
StatsNullPct(total_nulls, cells) ==
    IF cells = 0 THEN NaN ELSE Num(NpRoundPct(total_nulls, cells))

\* the `unique_...` entries, present only when the table has the column
UniqueStats(df) ==
    [k \in {c \in {"company_id", "employment_id", "keyword"} : HasColumn(df, c)} |->
        NUnique(df, k)]

\* the dict `stats` of one file.  file_size_mb, memory_usage_mb and
\* date_range are left out: the model has no byte sizes, and no drawn
\* column name contains "date"
Stats(name, df) ==
    [file |-> name,
     rows |-> df.nrows,
     columns |-> Len(df.columns),
     total_nulls |-> Sum(NullCounts(df)),
     columns_with_nulls |-> Len(SelectSeq(NullCounts(df), LAMBDA n : n > 0)),
     null_percentage |-> StatsNullPct(Sum(NullCounts(df)), df.nrows * Len(df.columns)),
     type_mismatches |-> Len(Mismatches(name, df)),
     mismatch_details |-> MismatchDetails(Mismatches(name, df)),
     unique |-> UniqueStats(df)]

\* one turn of `for csv_file in csv_files`; read_csv's exception is not
\* caught and ends the script
AnalyzeCsvFile ==
    /\ pc = "analyze_csv_files"
    /\ next_file <= Len(SortedCsvFiles(input_dir))
    /\ LET f == SortedCsvFiles(input_dir)[next_file]
       IN  IF ReadCsvFails(f.raw)
           THEN /\ exception' = "No columns to parse from file"
                /\ pc' = "crashed"
                /\ UNCHANGED <<stats_results, mismatches, next_file>>
           ELSE /\ stats_results' = Append(stats_results, Stats(f.name, ReadCsv(f.raw)))
                /\ mismatches' = Append(mismatches, Mismatches(f.name, ReadCsv(f.raw)))
                /\ next_file' = next_file + 1
                /\ UNCHANGED <<pc, exception>>
    /\ UNCHANGED <<private_exists, input_dir, output_dir, datasets, errors, fk_results,
                   fk_divisors, coverage_results, report, samples_dir,
                   exit_status>>

\* `return results`
AnalyzeCsvReturn ==
    /\ pc = "analyze_csv_files"
    /\ next_file > Len(SortedCsvFiles(input_dir))
    /\ pc' = "generate_markdown_report"
    /\ UNCHANGED <<private_exists, input_dir, output_dir, datasets, errors, fk_results,
                   fk_divisors, coverage_results, report, samples_dir,
                   stats_results, mismatches, next_file, exception,
                   exit_status>>

----------------------------------------------------------------------------
(* The files the specifications draw                                       *)

File(name, raw) == [name |-> name, raw |-> raw]

\* a file of zero bytes: read_csv raises on it
EmptyFile == [header |-> <<>>, rows |-> <<>>]

\* the cells of a drawn key column: null and two keys
KeyCells == {"NA", "1", "2"}

\* every CSV text with the given header and at most MaxRows rows of KeyCells
RawTables(header) ==
    {[header |-> header, rows |-> r] :
        r \in UNION {[1..n -> [1..Len(header) -> KeyCells]] : n \in 0..MaxRows}}

\* a table without any key column
NoKeyTable == [header |-> <<"name">>, rows |-> << <<"x">> >>]

FileNames ==
    <<KeywordSets, KeywordSetKeywords, GeoWeekly, ContactScores, Company,
      CompanyFull, Contacts>>

\* the key columns the declarations mention for a table
DeclaredKeys(name) ==
    {relationships[i].parent_key :
        i \in {j \in DOMAIN relationships : relationships[j].parent_table = name}}
    \cup {relationships[i].child_key :
        i \in {j \in DOMAIN relationships : relationships[j].child_table = name}}

\* a table holding every declared key column of `name`, each with keys 1, 2
FixtureTable(name) ==
    LET header == SeqOfSet(DeclaredKeys(name))
    IN  [header |-> header,
         rows |-> << [j \in DOMAIN header |-> "1"], [j \in DOMAIN header |-> "2"] >>]

\* the directory listings drawn for relationship `rel`: its parent and child
\* files range over every small key table (or are unreadable, or lack the
\* key column); with `fixture` the other declared files are there as well
FocusListings(rel, fixture) ==
    LET others == SelectSeq(FileNames,
                      LAMBDA n : fixture /\ n \notin {rel.parent_table, rel.child_table})
        rest == [i \in DOMAIN others |-> File(others[i], FixtureTable(others[i]))]
    IN  IF rel.parent_table = rel.child_table
        THEN {rest \o <<File(rel.parent_table, t)>> :
                t \in {EmptyFile, NoKeyTable}
                        \cup RawTables(<<rel.parent_key>>)
                        \cup RawTables(<<rel.child_key>>)
                        \cup RawTables(<<rel.parent_key, rel.child_key>>)}
        ELSE {rest \o <<File(rel.parent_table, p), File(rel.child_table, c)>> :
                p \in {EmptyFile, NoKeyTable} \cup RawTables(<<rel.parent_key>>),
                c \in {EmptyFile, NoKeyTable} \cup RawTables(<<rel.child_key>>)}

\* the relationships whose files are drawn: one per parent table, and two
\* of the self-referencing ones
FocusRelationships ==
    {Rel(KeywordSets, "id", KeywordSetKeywords, "keyword_set_id"),
     Rel(Company, "company_id", GeoWeekly, "company_id"),
     Rel(Contacts, "employment_id", ContactScores, "employment_id"),
     Rel(Company, "company_id", Company, "parent_id"),
     Rel(CompanyFull, "company_id", CompanyFull, "ultimate_parent_id")}

AnalyzeListings ==
    UNION {FocusListings(rel, fixture) :
            rel \in FocusRelationships, fixture \in BOOLEAN}

----------------------------------------------------------------------------
(* SpecAnalyze: the two analyses on every drawn collection of tables       *)

\* the state main is in when load_datasets has returned
InitAnalyze ==
    /\ \E listing \in AnalyzeListings :
        /\ input_dir = [exists |-> TRUE, files |-> listing]
        /\ datasets = LoadedDatasets(GlobCsv(listing))
        /\ errors = LoadErrors(GlobCsv(listing))
    /\ private_exists = TRUE
    /\ output_dir = [exists |-> TRUE, files |-> {}]
    /\ fk_results = <<>>
    /\ fk_divisors = {}
    /\ coverage_results = <<>>
    /\ report = <<>>
    /\ samples_dir = [exists |-> FALSE, files |-> <<>>]
    /\ stats_results = <<>>
    /\ mismatches = <<>>
    /\ next_file = 1
    /\ pc = "analyze_foreign_keys"
    /\ exception = "none"
    /\ exit_status = "none"

NextAnalyze == AnalyzeForeignKeys \/ AnalyzeDataCoverage

SpecAnalyze == InitAnalyze /\ [][NextAnalyze]_vars

----------------------------------------------------------------------------
(* SpecReport: the analyses and generate_report on drawn reference columns *)

\* the cells of a drawn reference column: a key the parent has and a key
\* it lacks
RefCells == {"1", "7"}

\* a child table of one to MaxRefs references
RefTables(header) ==
    {[header |-> <<header>>, rows |-> [i \in DOMAIN r |-> <<r[i]>>]] :
        r \in UNION {[1..n -> RefCells] : n \in 1..MaxRefs}}

\* a company table whose parent_id column holds nulls only (no reference)
NoRefsTable ==
    [header |-> <<"company_id", "parent_id">>,
     rows |-> << <<"1", "">>, <<"2", "">> >>]

\* a company table whose every parent_id is a company_id of the table
AllValidTable ==
    [header |-> <<"company_id", "parent_id">>,
     rows |-> << <<"1", "1">>, <<"2", "1">> >>]

\* a child table with five valid references out of six
FiveOfSixTable ==
    [header |-> <<"keyword_set_id">>,
     rows |-> << <<"1">>, <<"2">>, <<"1">>, <<"2">>, <<"1">>, <<"7">> >>]

\* the drawn directories: the keyword sets 1 and 2, a drawn child of them,
\* and optionally a second child and the two company tables
ReportListings ==
    {<<File(KeywordSets, [header |-> <<"id">>, rows |-> << <<"1">>, <<"2">> >>]),
       File(KeywordSetKeywords, c)>> \o geo \o company \o full :
        c \in RefTables("keyword_set_id"),
        geo \in {<<>>, <<File(GeoWeekly, FiveOfSixTable)>>},
        company \in {<<>>, <<File(Company, NoRefsTable)>>},
        full \in {<<>>, <<File(CompanyFull, AllValidTable)>>}}

\* the state main is in when load_datasets has returned
InitReport ==
    /\ \E listing \in ReportListings :
        /\ input_dir = [exists |-> TRUE, files |-> listing]
        /\ datasets = LoadedDatasets(GlobCsv(listing))
        /\ errors = LoadErrors(GlobCsv(listing))
    /\ private_exists = TRUE
    /\ output_dir = [exists |-> TRUE, files |-> {}]
    /\ fk_results = <<>>
    /\ fk_divisors = {}
    /\ coverage_results = <<>>
    /\ report = <<>>
    /\ samples_dir = [exists |-> FALSE, files |-> <<>>]
    /\ stats_results = <<>>
    /\ mismatches = <<>>
    /\ next_file = 1
    /\ pc = "analyze_foreign_keys"
    /\ exception = "none"
    /\ exit_status = "none"

NextReport == AnalyzeForeignKeys \/ AnalyzeDataCoverage \/ GenerateReport

SpecReport == InitReport /\ [][NextReport]_vars

----------------------------------------------------------------------------
(* Spec: one run of relationship_analyzer.py's main                        *)

\* the files a drawn private/datasets may hold, and what each may contain:
\* a file of zero bytes, a header without rows, small tables (one with a
\* blank line, one with an empty cell, one without its key column)
MainContents(name) ==
    IF name = KeywordSets
    THEN {EmptyFile,
          [header |-> <<"id">>, rows |-> <<>>],
          [header |-> <<"id">>, rows |-> << <<"1">>, <<"2">> >>]}
    ELSE IF name = KeywordSetKeywords
    THEN {EmptyFile,
          [header |-> <<"keyword_set_id">>, rows |-> << <<"1">>, <<"">>, <<"3">> >>],
          [header |-> <<"keyword", "weight">>,
           rows |-> << <<"x", "1">>, <<"y", "">> >>]}
    ELSE IF name = Company
    THEN {EmptyFile,
          [header |-> <<"company_id", "parent_id">>,
           rows |-> << <<"1", "">>, <<"2", "1">> >>]}
    ELSE {EmptyFile}

MainNames == {KeywordSets, KeywordSetKeywords, Company, "README.md"}

MainFiles == UNION {{File(n, raw) : raw \in MainContents(n)} : n \in MainNames}

\* a directory listing: files of different names, in the order glob yields
MainListings ==
    {l \in UNION {[1..k -> MainFiles] : k \in 0..Cardinality(MainNames)} :
        NoDuplicates([i \in DOMAIN l |-> l[i].name])}

\* private/analysis before the run: missing, empty, or left by an earlier run
MainOutputDirs ==
    {[exists |-> FALSE, files |-> {}],
     [exists |-> TRUE, files |-> {}],
     [exists |-> TRUE,
      files |-> {OutFile("relationship_analysis.csv", "earlier"),
                 OutFile("data_coverage_analysis.csv", "earlier"),
                 OutFile("notes.txt", "earlier")}],
     [exists |-> TRUE, files |-> {OutFile("old_export.csv", "earlier")}]}

Init ==
    /\ \/ input_dir = [exists |-> FALSE, files |-> <<>>]
       \/ \E listing \in MainListings :
            input_dir = [exists |-> TRUE, files |-> listing]
    /\ output_dir \in MainOutputDirs
    /\ private_exists \in {b \in BOOLEAN : (input_dir.exists \/ output_dir.exists) => b}
    /\ datasets = <<>>
    /\ errors = <<>>
    /\ fk_results = <<>>
    /\ fk_divisors = {}
    /\ coverage_results = <<>>
    /\ report = <<>>
    /\ samples_dir = [exists |-> FALSE, files |-> <<>>]
    /\ stats_results = <<>>
    /\ mismatches = <<>>
    /\ next_file = 1
    /\ pc = "setup_output_directory"
    /\ exception = "none"
    /\ exit_status = "none"

Next ==
    \/ SetupOutputDirectory
    \/ LoadDatasets
    \/ AnalyzeForeignKeys
    \/ AnalyzeDataCoverage
    \/ GenerateReport
    \/ SaveDetailedResults
    \/ Return
    \/ ExceptReturn

Spec == Init /\ [][Next]_vars

\* the specification's example: a parent key column holding exactly the
\* values 1, 2, 3 and a child key column holding 1, 2, 5 and one null
ExampleListings ==
    {<<File(KeywordSets, [header |-> <<"id">>, rows |-> [i \in DOMAIN p |-> <<p[i]>>]]),
       File(KeywordSetKeywords,
            [header |-> <<"keyword_set_id">>, rows |-> [i \in DOMAIN c |-> <<c[i]>>]])>> :
        p \in {q \in [1..3 -> {"1", "2", "3"}] \cup [1..4 -> {"1", "2", "3"}] :
                    Range(q) = {"1", "2", "3"}},
        c \in UNION {{d \in [1..4 -> {"1", "2", "5", null}] :
                            Range(d) = {"1", "2", "5", null}} : null \in {"NA", "null"}}}

\* main about to load the example's directory
InitExample ==
    /\ \E listing \in ExampleListings :
        input_dir = [exists |-> TRUE, files |-> listing]
    /\ datasets = <<>>
    /\ errors = <<>>
    /\ private_exists = TRUE
    /\ output_dir = [exists |-> TRUE, files |-> {}]
    /\ fk_results = <<>>
    /\ fk_divisors = {}
    /\ coverage_results = <<>>
    /\ report = <<>>
    /\ samples_dir = [exists |-> FALSE, files |-> <<>>]
    /\ stats_results = <<>>
    /\ mismatches = <<>>
    /\ next_file = 1
    /\ pc = "load_datasets"
    /\ exception = "none"
    /\ exit_status = "none"

NextExample == LoadDatasets \/ AnalyzeForeignKeys

SpecExample == InitExample /\ [][NextExample]_vars

----------------------------------------------------------------------------
(* SpecSampler: one run of sampler.py                                      *)

\* the text of line i of a drawn source file: in a two-column file the
\* second cell is empty, NA or text in turn; in a one-column file line 2 is
\* blank and every third line is NA
SampleRow(width, i) ==
    IF width = 1
    THEN << IF i = 2 THEN "" ELSE IF i % 3 = 0 THEN "NA" ELSE ToString(i) >>
    ELSE << ToString(i),
            IF i % 3 = 0 THEN "" ELSE IF i % 3 = 1 THEN "NA" ELSE "x" >>

SampleTable(width, lines) ==
    [header |-> IF width = 1 THEN <<"id">> ELSE <<"id", "name">>,
     rows |-> [i \in 1..lines |-> SampleRow(width, i)]]

\* the line counts drawn: none, one, and those around the sampling limit
SampleSizes ==
    {0, 1} \cup (SampleLimit - 1)..(SampleLimit + MaxExtra)

SamplerNames == {KeywordSets, Company, "README.md"}

SamplerFiles ==
    {File(n, EmptyFile) : n \in SamplerNames}
    \cup {File(n, SampleTable(w, k)) :
            n \in SamplerNames \ {"README.md"}, w \in {1, 2}, k \in SampleSizes}

SamplerListings ==
    {l \in UNION {[1..k -> SamplerFiles] : k \in 0..Cardinality(SamplerNames)} :
        NoDuplicates([i \in DOMAIN l |-> l[i].name])}

InitSampler ==
    /\ \/ input_dir = [exists |-> FALSE, files |-> <<>>]
       \/ \E listing \in SamplerListings :
            input_dir = [exists |-> TRUE, files |-> listing]
    /\ samples_dir \in
        {[exists |-> FALSE, files |-> <<>>],
         [exists |-> TRUE,
          files |-> <<File("sample_old.csv", SampleTable(1, 1)),
                      File("copy_" \o KeywordSets, SampleTable(2, 1))>>]}
    /\ output_dir = [exists |-> FALSE, files |-> {}]
    /\ private_exists \in {b \in BOOLEAN : (input_dir.exists \/ samples_dir.exists) => b}
    /\ datasets = <<>>
    /\ errors = <<>>
    /\ fk_results = <<>>
    /\ fk_divisors = {}
    /\ coverage_results = <<>>
    /\ report = <<>>
    /\ stats_results = <<>>
    /\ mismatches = <<>>
    /\ next_file = 1
    /\ pc = "sampler_clear"
    /\ exception = "none"
    /\ exit_status = "none"

NextSampler == SamplerClear \/ SamplerFile \/ SamplerEnd

SpecSampler == InitSampler /\ [][NextSampler]_vars

----------------------------------------------------------------------------
(* SpecSchema: analyze_csv_files over a drawn directory                    *)

\* the cells of a drawn column, by the dtype read_csv gives them:
\* int64, float64, object, bool
ColumnKinds ==
    {<<"1", "2">>, <<"1", "NA">>, <<"x", "1">>, <<"True", "False">>}

\* the tables over `header`: every column is left out or holds one of the
\* ColumnKinds (two rows)
KindTables(header) ==
    {LET kept == SelectSeq(header, LAMBDA c : pick[c] # <<>>)
     IN  [header |-> kept,
          rows |-> IF kept = <<>> THEN <<>>
                   ELSE [i \in 1..2 |-> [j \in DOMAIN kept |-> pick[kept[j]][i]]]] :
        pick \in [Range(header) -> ColumnKinds \cup {<<>>}]}

\* the drawn files with a schema: columns of the schema in reverse order
\* and one column the schema does not have (the schema's isroot is never
\* there), or a header alone
SchemaTables ==
    {File(KeywordSets, t) : t \in KindTables(<<"name", "competitive", "id">>)}
    \cup {File(Company, t) :
            t \in KindTables(<<"name", "best_domain", "revenue", "employees",
                               "company_id">>)}
    \cup {File(Company, [header |-> <<"name", "best_domain", "revenue",
                                      "employees", "company_id">>,
                         rows |-> <<>>])}

\* a file SCHEMAS does not know
OtherFiles ==
    {File("notes.csv", EmptyFile),
     File("notes.csv", [header |-> <<"id">>, rows |-> << <<"x">> >>])}

InitSchema ==
    /\ \/ input_dir = [exists |-> FALSE, files |-> <<>>]
       \/ \E f \in SchemaTables :
            \/ input_dir = [exists |-> TRUE, files |-> <<f>>]
            \/ \E g \in OtherFiles :
                input_dir = [exists |-> TRUE, files |-> <<g, f>>]
    /\ samples_dir = [exists |-> FALSE, files |-> <<>>]
    /\ output_dir = [exists |-> FALSE, files |-> {}]
    /\ private_exists \in {b \in BOOLEAN : input_dir.exists => b}
    /\ datasets = <<>>
    /\ errors = <<>>
    /\ fk_results = <<>>
    /\ fk_divisors = {}
    /\ coverage_results = <<>>
    /\ report = <<>>
    /\ stats_results = <<>>
    /\ mismatches = <<>>
    /\ next_file = 1
    /\ pc = "analyze_csv_files"
    /\ exception = "none"
    /\ exit_status = "none"

NextSchema == AnalyzeCsvFile \/ AnalyzeCsvReturn

SpecSchema == InitSchema /\ [][NextSchema]_vars

----------------------------------------------------------------------------
(* Properties of analyze_foreign_keys and analyze_data_coverage            *)

\* analyze_foreign_keys has returned its list
FKDone == pc \in {"analyze_data_coverage", "generate_report",
                  "save_detailed_results", "return"}
            \/ (pc = "done" /\ exit_status = 0)

\* analyze_data_coverage has returned its list
CoverageDone == pc \in {"generate_report", "save_detailed_results", "return"}
                    \/ (pc = "done" /\ exit_status = 0)

\* the four identifiers of a result entry
IdOf(r) == Rel(r.parent_table, r.parent_key, r.child_table, r.child_key)

\* C1: in every entry analyze_foreign_keys returns, valid_refs +
\* invalid_refs = child_total_refs, neither count is negative, and the
\* integrity percentage lies between 0 and 100
C1_CountsAndPercentage ==
    FKDone =>
        \A i \in DOMAIN fk_results :
            LET r == fk_results[i]
            IN  /\ r.valid_refs + r.invalid_refs = r.child_total_refs
                /\ r.valid_refs >= 0
                /\ r.invalid_refs >= 0
                /\ 0 <= r.referential_integrity_pct
                /\ r.referential_integrity_pct <= 100 * 100

\* C1 witness: an entry with both valid and invalid references, one of them
\* a repeated child key
C1_Witness ==
    /\ FKDone
    /\ \E i \in DOMAIN fk_results :
        /\ fk_results[i].valid_refs > 0
        /\ fk_results[i].invalid_refs > 0
    /\ \E i \in DOMAIN fk_results :
        fk_results[i].valid_refs > fk_results[i].parent_unique_values

\* C2: for a parent key column holding {1,2,3} and a child key column
\* holding [1,2,5,null], both as loaded, analyze_foreign_keys reports
\* parent_unique_values=3, child_total_refs=3, valid_refs=2, invalid_refs=1
\* and integrity 66.67
C2_ExampleReport ==
    FKDone =>
        /\ Len(fk_results) = 1
        /\ fk_results[1].parent_unique_values = 3
        /\ fk_results[1].child_total_refs = 3
        /\ fk_results[1].valid_refs = 2
        /\ fk_results[1].invalid_refs = 1
        /\ fk_results[1].referential_integrity_pct = 6667

\* C3: every coverage record has null_count + non-null count = total_rows
\* and null_percentage = null_count / total_rows * 100, which is 0 (a
\* number) when the table has no rows
C3_CoverageGuarded ==
    CoverageDone =>
        \A i \in DOMAIN coverage_results :
            LET c == coverage_results[i]
                df == Table(datasets, c.table)
            IN  /\ c.null_count + NotNaCount(df, c.column) = c.total_rows
                /\ ~c.null_percentage.nan
                /\ c.total_rows = 0 => c.null_percentage.hundredths = 0
                /\ c.total_rows > 0 =>
                    LET off == c.null_percentage.hundredths * c.total_rows
                                    - 10000 * c.null_count
                    IN  2 * off <= c.total_rows /\ -2 * off <= c.total_rows

\* C4: an evaluated relationship whose child key column has no non-null
\* value is reported with integrity 0, no valid and no invalid reference,
\* and the function divides by no zero
C4_ZeroRefsGuarded ==
    /\ exception # "division by zero"
    /\ 0 \notin fk_divisors
    /\ FKDone =>
        /\ \A i \in DOMAIN fk_results :
            fk_results[i].child_total_refs = 0 =>
                /\ fk_results[i].referential_integrity_pct = 0
                /\ fk_results[i].valid_refs = 0
                /\ fk_results[i].invalid_refs = 0
        /\ \A k \in DOMAIN relationships :
            LET rel == relationships[k]
            IN  (/\ rel.parent_table \in Loaded(datasets)
                 /\ rel.child_table \in Loaded(datasets)
                 /\ HasColumn(Table(datasets, rel.parent_table), rel.parent_key)
                 /\ HasColumn(Table(datasets, rel.child_table), rel.child_key)
                 /\ \A cell \in Range(Table(datasets, rel.child_table).cells[rel.child_key]) :
                        IsNull(cell))
                => \E i \in DOMAIN fk_results :
                    /\ IdOf(fk_results[i]) = rel
                    /\ fk_results[i].child_total_refs = 0
                    /\ fk_results[i].referential_integrity_pct = 0

\* C4 witness: a reported relationship without any child reference, its
\* child column holding nulls only, beside one that was divided
C4_Witness ==
    /\ FKDone
    /\ \E i \in DOMAIN fk_results :
        /\ fk_results[i].child_total_refs = 0
        /\ Table(datasets, fk_results[i].child_table).nrows > 0
    /\ fk_divisors # {}

\* the test of the claim, written from the loaded tables
BothLoadedWithKeys(rel) ==
    /\ \E i \in DOMAIN datasets : datasets[i].name = rel.parent_table
    /\ \E i \in DOMAIN datasets : datasets[i].name = rel.child_table
    /\ \A i \in DOMAIN datasets :
        /\ datasets[i].name = rel.parent_table =>
            rel.parent_key \in Range(datasets[i].df.columns)
        /\ datasets[i].name = rel.child_table =>
            rel.child_key \in Range(datasets[i].df.columns)

\* C5: a declared relationship has an entry in the results exactly when
\* both its tables are loaded and both its key columns exist; the entries
\* are those relationships, once each, in declaration order
C5_EvaluatedIffLoaded ==
    FKDone =>
        [i \in DOMAIN fk_results |-> IdOf(fk_results[i])]
            = SelectSeq(relationships, BothLoadedWithKeys)

\* C5 witness: a relationship skipped between two that are reported, one
\* skipped for a missing table and one for a missing column
C5_Witness ==
    /\ FKDone
    /\ \E i, j, k \in DOMAIN relationships :
        /\ i < j /\ j < k
        /\ \E a, b \in DOMAIN fk_results :
            /\ a + 1 = b
            /\ IdOf(fk_results[a]) = relationships[i]
            /\ IdOf(fk_results[b]) = relationships[k]
        /\ relationships[j].child_table \in Loaded(datasets)
        /\ relationships[j].parent_table \in Loaded(datasets)
        /\ ~BothLoadedWithKeys(relationships[j])

\* C6: an entry is "self-referencing" when its parent and child table are
\* the same and "foreign_key" when they differ
C6_SelfReferencing ==
    FKDone =>
        \A i \in DOMAIN fk_results :
            /\ fk_results[i].parent_table = fk_results[i].child_table
                => fk_results[i].relationship_type = "self-referencing"
            /\ fk_results[i].parent_table # fk_results[i].child_table
                => fk_results[i].relationship_type = "foreign_key"

\* C6 witness: the results hold a relationship of each kind, the
\* self-referencing one between two different key columns
C6_Witness ==
    /\ FKDone
    /\ \E i, j \in DOMAIN fk_results :
        /\ fk_results[i].parent_table = fk_results[i].child_table
        /\ fk_results[i].parent_key # fk_results[i].child_key
        /\ fk_results[j].parent_table # fk_results[j].child_table
        /\ fk_results[j].parent_key = fk_results[j].child_key

----------------------------------------------------------------------------
(* Properties of load_datasets and main                                    *)

\* load_datasets has returned or raised
LoadDone == pc \notin {"setup_output_directory", "load_datasets"}

\* the CSV files of the input directory, as the claims speak of them
IsCsvFile(f) == EndsWith(f.name, ".csv")

NoCsvInput == ~input_dir.exists \/ \A i \in DOMAIN input_dir.files : ~IsCsvFile(input_dir.files[i])

\* C8: load_datasets raises when the directory is absent or holds no CSV
\* file; otherwise it returns exactly the CSV files that parse, each under
\* its file name and once, and records the file names that do not parse
C8_LoadTolerant ==
    LoadDone =>
        IF NoCsvInput
        THEN /\ exception \in {"Directory private/datasets not found",
                              "No CSV files found in private/datasets"}
             /\ pc \in {"raised", "done"}
             /\ datasets = <<>>
        ELSE /\ exception = "none"
             /\ pc # "raised"
             /\ NoDuplicates([i \in DOMAIN datasets |-> datasets[i].name])
             /\ \A k \in DOMAIN input_dir.files :
                    LET f == input_dir.files[k]
                    IN  /\ (IsCsvFile(f) /\ f.raw.header # <<>>)
                            <=> \E i \in DOMAIN datasets :
                                    /\ datasets[i].name = f.name
                                    /\ datasets[i].df = ReadCsv(f.raw)
                        /\ (IsCsvFile(f) /\ f.raw.header = <<>>)
                            <=> f.name \in Range(errors)
             /\ \A i \in DOMAIN datasets :
                    \E k \in DOMAIN input_dir.files : input_dir.files[k].name = datasets[i].name

\* C8 witness: a file that did not parse, listed before one that was loaded
C8_Witness ==
    /\ LoadDone
    /\ \E j, k \in DOMAIN input_dir.files :
        /\ j < k
        /\ input_dir.files[j].name \in Range(errors)
        /\ input_dir.files[k].name \in Loaded(datasets)

\* every step of main has run: the report is printed and both detail files
\* are written by this run
AllStepsCompleted ==
    /\ report # <<>>
    /\ output_dir.exists
    /\ \A n \in DetailFileNames : OutFile(n, "this") \in output_dir.files

\* C9: main returns 0 exactly when every step has run; it returns 1, with
\* the error reported, when the input directory is missing or holds no CSV
\* file; and it returns 0 whenever the directory holds a CSV file, whether
\* or not a file failed to parse or a relationship was skipped
C9_ExitStatus ==
    pc = "done" =>
        /\ exit_status \in {0, 1}
        /\ exit_status = 0 <=> AllStepsCompleted
        /\ NoCsvInput => (exit_status = 1 /\ exception # "none")
        /\ ~NoCsvInput => exit_status = 0

\* C9 witness: a run that returned 0 although a file failed to parse and a
\* relationship between loaded tables was skipped for a missing column
C9_Witness ==
    /\ pc = "done"
    /\ exit_status = 0
    /\ errors # <<>>
    /\ \E k \in DOMAIN relationships :
        /\ {relationships[k].parent_table, relationships[k].child_table}
                \subseteq Loaded(datasets)
        /\ \A i \in DOMAIN fk_results : IdOf(fk_results[i]) # relationships[k]

----------------------------------------------------------------------------
(* Properties of sampler.py                                                *)

\* two tables hold the same rows: the same columns in the same order, and
\* cell by cell the same text or both null
SameTable(a, b) ==
    /\ a.columns = b.columns
    /\ a.nrows = b.nrows
    /\ \A c \in Range(a.columns) : \A i \in 1..a.nrows :
        \/ a.cells[c][i] = b.cells[c][i]
        \/ (a.cells[c][i] \in NaValues /\ b.cells[c][i] \in NaValues)

\* the source files of the sampler: the CSV files of private/datasets
SamplerSources ==
    IF input_dir.exists THEN SelectSeq(input_dir.files, IsCsvFile) ELSE <<>>

\* the files of private/samples written for source file `name`
OutputsFor(name) ==
    SelectSeq(samples_dir.files,
              LAMBDA g : g.name \in {"copy_" \o name, "sample_" \o name})

\* the first `n` rows of table `a` are the rows of table `b`
FirstRowsOf(a, n, b) ==
    /\ a.nrows >= n
    /\ b.nrows = n
    /\ a.columns = b.columns
    /\ \A c \in Range(a.columns) : \A i \in 1..n :
        \/ a.cells[c][i] = b.cells[c][i]
        \/ (a.cells[c][i] \in NaValues /\ b.cells[c][i] \in NaValues)

\* C7: every source file the sampler has handled has exactly one output
\* file; a table of at most 500 rows is written whole as copy_<name>, a
\* larger one as sample_<name> holding its first 500 rows, columns
\* unchanged; and the output directory holds nothing else
C7_SamplerOutputs ==
    pc \in {"sampler_loop", "crashed", "done"} =>
        /\ Len(samples_dir.files) = next_file - 1
        /\ pc = "done" => Len(samples_dir.files) = Len(SamplerSources)
        /\ \A k \in 1..(next_file - 1) :
            LET src == SamplerSources[k]
                table == ReadCsvStr(src.raw)
                outs == OutputsFor(src.name)
            IN  /\ Len(outs) = 1
                /\ IF table.nrows <= 500
                   THEN /\ outs[1].name = "copy_" \o src.name
                        /\ SameTable(table, ReadCsvStr(outs[1].raw))
                   ELSE /\ outs[1].name = "sample_" \o src.name
                        /\ FirstRowsOf(table, 500, ReadCsvStr(outs[1].raw))

\* C7 witness: a finished run over a file of exactly 500 rows and a file of
\* exactly 501 rows
C7_Witness ==
    /\ pc = "done"
    /\ \E j, k \in DOMAIN SamplerSources :
        /\ ReadCsvStr(SamplerSources[j].raw).nrows = 500
        /\ ReadCsvStr(SamplerSources[k].raw).nrows = 501
        /\ Len(samples_dir.files) = 2

----------------------------------------------------------------------------
(* Properties of analyze_csv_files                                         *)

\* the CSV files analyze_csv_files has handled so far, with their tables
AnalyzedFile(k) ==
    LET f == CHOOSE g \in Range(input_dir.files) : g.name = stats_results[k].file
    IN  [name |-> f.name, df |-> ReadCsv(f.raw)]

\* the entries of a mismatch list that speak of column `col`
EntriesOf(ms, col) ==
    SelectSeq(ms, LAMBDA e : /\ Len(e) >= Len(col) + 2
                             /\ SubSeq(e, 1, Len(col) + 2) = col \o ": ")

\* the dtype SCHEMAS expects of a column of a file, "" if it names none
Expected(name, col) ==
    IF \E k \in DOMAIN SCHEMAS(name) : SCHEMAS(name)[k].col = col
    THEN SCHEMAS(name)[CHOOSE k \in DOMAIN SCHEMAS(name) : SCHEMAS(name)[k].col = col].expected
    ELSE ""

SchemaColumns(name) == {SCHEMAS(name)[k].col : k \in DOMAIN SCHEMAS(name)}

\* C10: for every analyzed file, a column declared int64 or float64 and
\* read as object has exactly one mismatch entry, "<column>: expected
\* numeric, got object"; a column declared bool and not read as bool has
\* exactly one entry; a column of the table the schema does not name, and a
\* schema column the table lacks, have none
C10_SchemaMismatches ==
    \A k \in DOMAIN mismatches :
        LET name == AnalyzedFile(k).name
            df == AnalyzedFile(k).df
            ms == mismatches[k]
        IN  \A col \in SchemaColumns(name) \cup Range(df.columns) :
                /\ (/\ col \in Range(df.columns)
                    /\ Expected(name, col) \in {"int64", "float64"}
                    /\ df.dtype[col] = "object")
                    => EntriesOf(ms, col)
                        = <<col \o ": expected numeric, got " \o df.dtype[col]>>
                /\ (/\ col \in Range(df.columns)
                    /\ Expected(name, col) = "bool"
                    /\ df.dtype[col] # "bool")
                    => Len(EntriesOf(ms, col)) = 1
                /\ (col \in Range(df.columns) /\ col \notin SchemaColumns(name))
                    => EntriesOf(ms, col) = <<>>
                /\ (col \in SchemaColumns(name) /\ col \notin Range(df.columns))
                    => EntriesOf(ms, col) = <<>>

\* C10 witness: an analyzed table with an integer and a float column read
\* as text, a bool column read as something else, a column the schema does
\* not name, and a schema column missing; and a file without a schema
C10_Witness ==
    /\ pc = "generate_markdown_report"
    /\ \E k \in DOMAIN mismatches :
        /\ AnalyzedFile(k).name = Company
        /\ {"name", "best_domain", "employees", "company_id"}
                \subseteq Range(AnalyzedFile(k).df.columns)
        /\ "revenue" \notin Range(AnalyzedFile(k).df.columns)
        /\ AnalyzedFile(k).df.dtype["employees"] = "object"
        /\ AnalyzedFile(k).df.dtype["company_id"] = "object"
        /\ AnalyzedFile(k).df.dtype["best_domain"] = "int64"
        /\ Len(mismatches[k]) = 3
    /\ \E k \in DOMAIN mismatches :
        /\ AnalyzedFile(k).name = "notes.csv"
        /\ mismatches[k] = <<>>

\* the place of a mismatch description's column in the schema of `name`
SchemaIndexOf(name, entry) ==
    CHOOSE k \in DOMAIN SCHEMAS(name) :
        LET col == SCHEMAS(name)[k].col
        IN  /\ Len(entry) >= Len(col) + 2
            /\ SubSeq(entry, 1, Len(col) + 2) = col \o ": "

\* C11: for every analyzed file, type_mismatches is the length of the whole
\* mismatch list; mismatch_details is the first three descriptions joined
\* by ", ", followed by "..." exactly when the list holds more than three,
\* and the empty text when it holds none; the descriptions stand in the
\* order of the schema's columns
C11_MismatchSummary ==
    \A k \in DOMAIN stats_results :
        LET ms == mismatches[k]
            st == stats_results[k]
        IN  /\ st.type_mismatches = Len(ms)
            /\ Len(ms) = 0 => st.mismatch_details = ""
            /\ Len(ms) = 1 => st.mismatch_details = ms[1]
            /\ Len(ms) = 2 => st.mismatch_details = ms[1] \o ", " \o ms[2]
            /\ Len(ms) = 3 =>
                st.mismatch_details = ms[1] \o ", " \o ms[2] \o ", " \o ms[3]
            /\ Len(ms) > 3 =>
                st.mismatch_details
                    = ms[1] \o ", " \o ms[2] \o ", " \o ms[3] \o "..."
            /\ EndsWith(st.mismatch_details, "...") <=> Len(ms) > 3
            /\ \A i, j \in DOMAIN ms :
                i < j => SchemaIndexOf(st.file, ms[i]) < SchemaIndexOf(st.file, ms[j])

\* C11 witness: a finished analysis of a table with four mismatches, whose
\* columns stand in another order than the schema's, beside a file with none
C11_Witness ==
    /\ pc = "generate_markdown_report"
    /\ \E k \in DOMAIN stats_results :
        /\ stats_results[k].file = Company
        /\ stats_results[k].type_mismatches = 4
        /\ Len(mismatches[k]) = 4
        /\ AnalyzedFile(k).df.columns[1] = "name"
    /\ \E k \in DOMAIN stats_results :
        /\ stats_results[k].type_mismatches = 0
        /\ stats_results[k].mismatch_details = ""

----------------------------------------------------------------------------
(* Properties of generate_report                                           *)

\* generate_report has printed its findings
ReportDone == report # <<>>

\* C12: once generate_report has run, every reported relationship stands in
\* exactly one of the two groups, in "strong" exactly when its integrity is
\* above 80 and in "broken" exactly when it is 80 or below; one at exactly
\* 80 and one without child references is broken; the groups hold reported
\* relationships only and their sizes add up to the number reported
C12_ThresholdPartition ==
    ReportDone =>
        /\ Len(report.strong) + Len(report.broken) = Len(fk_results)
        /\ Range(report.strong) \cup Range(report.broken) \subseteq Range(fk_results)
        /\ \A i \in DOMAIN fk_results :
            LET r == fk_results[i]
            IN  /\ Count(report.strong, {r}) + Count(report.broken, {r}) = 1
                /\ r \in Range(report.strong) <=> r.referential_integrity_pct > 8000
                /\ r \in Range(report.broken) <=> r.referential_integrity_pct <= 8000
                /\ r.referential_integrity_pct = 8000 => r \in Range(report.broken)
                /\ r.child_total_refs = 0 => r \in Range(report.broken)

\* C12 witness: a report over a relationship at exactly 80, one just above
\* (83.33), one at 100 and one without any child reference
C12_Witness ==
    /\ ReportDone
    /\ \E i \in DOMAIN report.broken :
        /\ report.broken[i].referential_integrity_pct = 8000
        /\ report.broken[i].valid_refs = 4
    /\ \E i \in DOMAIN report.broken : report.broken[i].child_total_refs = 0
    /\ \E i \in DOMAIN report.strong :
        report.strong[i].referential_integrity_pct = 8333
    /\ \E i \in DOMAIN report.strong :
        report.strong[i].referential_integrity_pct = 10000

----------------------------------------------------------------------------
(* Properties of the output directory over a run of main                   *)

\* the CSV files of private/analysis that an earlier run left
EarlierCsvFiles ==
    {f \in output_dir.files : f.run = "earlier" /\ IsCsvFile(f)}

\* the detail files in private/analysis, whoever wrote them
DetailFilesPresent == {f \in output_dir.files : f.name \in DetailFileNames}

\* after the clearing step no CSV of an earlier run is left, whatever
\* happens later; a detail file is there only once every analysis and the
\* report are done; a run aborted for a missing or empty input directory
\* leaves no detail file
C13_OutputState ==
    /\ pc # "setup_output_directory" => (output_dir.exists /\ EarlierCsvFiles = {})
    /\ DetailFilesPresent # {} =>
        \/ pc = "setup_output_directory"
        \/ (pc \in {"return", "done"} /\ ReportDone /\ exception = "none")
    /\ (pc = "done" /\ NoCsvInput) =>
        (exit_status = 1 /\ DetailFilesPresent = {})

\* the datasets are loaded only when the clearing is done; files are added
\* to the directory only by the saving step, which writes both detail
\* files at once; and nothing but the return follows the saving step
C13_OutputStep ==
    /\ (datasets' # datasets \/ errors' # errors \/ exception' # exception)
        => (pc # "setup_output_directory" /\ EarlierCsvFiles = {})
    /\ output_dir'.files \ output_dir.files # {} =>
        /\ pc = "save_detailed_results"
        /\ EarlierCsvFiles = {}
        /\ output_dir'.files \ output_dir.files
                = {OutFile(n, "this") : n \in DetailFileNames}
        /\ pc' = "return"
    /\ pc = "return" => (pc' = "done" /\ exit_status' = 0 /\ output_dir' = output_dir)

\* C13: in every run of main the output directory is cleared of CSV files
\* before the datasets are loaded and before a detail file is written, and
\* the detail files are written as the last step; so after the clearing no
\* CSV of an earlier run is ever there, in a completed or an aborted run,
\* and a run aborted for a missing or empty input directory leaves no
\* detail file
C13_ClearedBeforeWritten == []C13_OutputState /\ [][C13_OutputStep]_vars

\* C13 witness: a run over a directory that held both detail files of an
\* earlier run (beside notes.txt, which stays) has aborted for want of
\* input, and the directory holds no CSV file
C13_Witness ==
    /\ pc = "done"
    /\ exit_status = 1
    /\ NoCsvInput
    /\ OutFile("notes.txt", "earlier") \in output_dir.files
    /\ \A f \in output_dir.files : ~IsCsvFile(f)

====
